---- MODULE Spec2Model ----
(***************************************************************************)
(* First-aid guidance bot (src/app.py): the per-session conversation       *)
(* state machine of the /chat endpoint, the Neo4j node resolver            *)
(* get_next_interaction, the keyword classifier identify_emergency, the    *)
(* phrasing call _generate_llm_response and the idle-timeout task          *)
(* reset_if_no_response.                                                   *)
(*                                                                         *)
(* Texts are sequences of one-character strings, so that str.lower(),      *)
(* str.strip() and the substring test `k in text` are computed character   *)
(* by character.  Time is kept as ages: the seconds elapsed since          *)
(* last_interaction_time and since a timer task was created, both capped   *)
(* at the timer delay, beyond which the code no longer tells them apart.   *)
(*                                                                         *)
(* No coroutine awaited by chat() ever suspends (get_next_interaction,     *)
(* identify_emergency and _generate_llm_response contain no await that     *)
(* yields to the event loop), so one message is handled in one atomic      *)
(* step; reset_if_no_response suspends only in asyncio.sleep(60).          *)
(***************************************************************************)
EXTENDS Integers, Sequences, FiniteSets, TLC

VARIABLES
  session_states,        \* session id -> state dict (app.py:46)
  timeout_tasks,         \* session ids that have an entry in timeout_tasks (app.py:49)
  tasks,                 \* the reset_if_no_response tasks still pending in the event loop
  conversation_memories, \* session ids that have a ConversationBufferMemory (app.py:53)
  last                   \* what the most recent handler run did (observation only)

vars == <<session_states, timeout_tasks, tasks, conversation_memories, last>>

-----------------------------------------------------------------------------
(* Python values *)

None == "None"

\* None in a node-id position (Neo4j ids are >= 0)
NoneId == -1

\* user_input_text=None, the default of get_next_interaction
NoneText == <<"<None>">>

-----------------------------------------------------------------------------
(* str.lower(), str.strip(), substring test *)

UpperToLower ==
  [c \in {"A","B","C","D","E","F","G","H","I","J","K","L","M","N","Ñ","O","P",
          "Q","R","S","T","U","V","W","X","Y","Z","Á","É","Í","Ó","Ú"} |->
     CASE c = "A" -> "a" [] c = "B" -> "b" [] c = "C" -> "c" [] c = "D" -> "d"
       [] c = "E" -> "e" [] c = "F" -> "f" [] c = "G" -> "g" [] c = "H" -> "h"
       [] c = "I" -> "i" [] c = "J" -> "j" [] c = "K" -> "k" [] c = "L" -> "l"
       [] c = "M" -> "m" [] c = "N" -> "n" [] c = "Ñ" -> "ñ" [] c = "O" -> "o"
       [] c = "P" -> "p" [] c = "Q" -> "q" [] c = "R" -> "r" [] c = "S" -> "s"
       [] c = "T" -> "t" [] c = "U" -> "u" [] c = "V" -> "v" [] c = "W" -> "w"
       [] c = "X" -> "x" [] c = "Y" -> "y" [] c = "Z" -> "z" [] c = "Á" -> "á"
       [] c = "É" -> "é" [] c = "Í" -> "í" [] c = "Ó" -> "ó" [] c = "Ú" -> "ú"]

\* str.lower()
Lower(s) ==
  [i \in 1..Len(s) |-> IF s[i] \in DOMAIN UpperToLower THEN UpperToLower[s[i]] ELSE s[i]]

Whitespace == {" ", "\t", "\n", "\r"}

\* str.strip(): drops leading and trailing whitespace
Strip(s) ==
  LET keep == {i \in 1..Len(s) : s[i] \notin Whitespace}
  IN  IF keep = {} THEN <<>>
      ELSE LET lo == CHOOSE i \in keep : \A j \in keep : i <= j
               hi == CHOOSE i \in keep : \A j \in keep : i >= j
           IN  SubSeq(s, lo, hi)

\* Python's `sub in s` on strings
Contains(s, sub) ==
  \E i \in 0..(Len(s) - Len(sub)) : SubSeq(s, i + 1, i + Len(sub)) = sub

\* the messages sent to /chat
Texts ==
  { <<"i","n","i","c","i","a","r">>,
    <<"e","m","p","e","z","a","r">>,
    <<" ","R","e","s","e","t"," ">>,
    <<"R","E","I","N","I","C","I","A","R">>,
    <<"c","o","m","e","n","z","a","r">>,
    <<"S","i","g","u","i","e","n","t","e"," ","p","a","s","o"," ">>,
    <<"m","e"," ","c","o","r","t","é"," ","u","n"," ","d","e","d","o">>,
    <<"t","e","n","g","o"," ","u","n"," ","c","o","r","t","e">>,
    <<"g","o","l","p","e"," ","y"," ","c","o","r","t","e">>,
    <<"e","m","e","r","g","e","n","c","i","a"," ","r","c","p"," ","b","e","b","e","s"," ","e","n"," ","c","u","r","s","o">>,
    <<"q","u","e","m","a","d","u","r","a"," ","e","n"," ","e","l"," ","o","j","o">>,
    <<"h","o","l","a">>,
    <<"s","í">>,
    <<"S","i">>,
    <<"n","o">>,
    <<"t","a","l"," ","v","e","z">> }

-----------------------------------------------------------------------------
(* identify_emergency (app.py:247-288) *)

\* the dict emergency_keywords, in insertion order
emergency_keywords ==
  <<
    [kw |-> <<"o","j","o">>,
     name |-> "Cuerpo Extraño en el Ojo"],
    [kw |-> <<"q","u","e","m","a","d","u","r","a">>,
     name |-> "Quemaduras de Segundo Grado"],
    [kw |-> <<"e","l","e","c","t","r","i","c","a">>,
     name |-> "Quemaduras Eléctricas"],
    [kw |-> <<"a","t","r","a","g","a","n","t","a","m","i","e","n","t","o">>,
     name |-> "Atragantamiento en Adultos y Niños Mayores"],
    [kw |-> <<"c","o","n","v","u","l","s","i","o","n">>,
     name |-> "Convulsiones (Post-Convulsión y Protección)"],
    [kw |-> <<"d","i","e","n","t","e">>,
     name |-> "Dientes Rotos o Caídos"],
    [kw |-> <<"r","e","s","p","i","r","a","r">>,
     name |-> "Dificultad para Respirar (Leve)"],
    [kw |-> <<"f","r","a","c","t","u","r","a">>,
     name |-> "Fracturas Evidentes o Sospechosas"],
    [kw |-> <<"h","e","m","o","r","r","a","g","i","a">>,
     name |-> "Hemorragia Severa"],
    [kw |-> <<"a","h","o","g","a","m","i","e","n","t","o">>,
     name |-> "Ahogamiento"],
    [kw |-> <<"c","a","b","e","z","a">>,
     name |-> "Golpe en la Cabeza"],
    [kw |-> <<"c","o","r","t","e">>,
     name |-> "Cortes y Raspaduras Menores"],
    [kw |-> <<"e","s","g","u","i","n","c","e">>,
     name |-> "Esguinces y Torceduras Leves"],
    [kw |-> <<"p","i","c","a","d","u","r","a">>,
     name |-> "Picaduras de Insectos (No Alérgicas)"],
    [kw |-> <<"g","o","l","p","e">>,
     name |-> "Golpes y Contusiones Menores"],
    [kw |-> <<"s","a","n","g","r","a","d","o"," ","n","a","s","a","l">>,
     name |-> "Sangrado Nasal"],
    [kw |-> <<"i","n","s","o","l","a","c","i","o","n">>,
     name |-> "Insolación Leve / Agotamiento por Calor"],
    [kw |-> <<"h","i","p","o","t","e","r","m","i","a">>,
     name |-> "Hipotermia Leve"],
    [kw |-> <<"d","e","s","m","a","y","o">>,
     name |-> "Desmayo (Síncope Simple)"],
    [kw |-> <<"r","c","p"," ","n","i","ñ","o","s">>,
     name |-> "RCP en Niños (1 a 8 años)"],
    [kw |-> <<"r","c","p"," ","b","e","b","e","s">>,
     name |-> "RCP en Bebés (< 1 año)"],
    [kw |-> <<"r","c","p">>,
     name |-> "RCP en Adultos (Solo Manos)"],
    [kw |-> <<"r","e","v","i","s","i","o","n">>,
     name |-> "Revisión Básica de Conciencia y Respiración"]
  >>

\* emergency_keywords.keys()
keyword_keys == [i \in DOMAIN emergency_keywords |-> emergency_keywords[i].kw]

\* emergency_keywords[keyword]
KeywordName(keyword) ==
  emergency_keywords[CHOOSE i \in DOMAIN emergency_keywords :
                       emergency_keywords[i].kw = keyword].name

MaxKeywordLen ==
  CHOOSE n \in {Len(keyword_keys[i]) : i \in DOMAIN keyword_keys} :
    \A i \in DOMAIN keyword_keys : Len(keyword_keys[i]) <= n

\* the keys of length n, n-1, ..., 1, each group in dict order: Python's sort
\* is stable and reverse=True keeps the original order of equal keys
RECURSIVE KeysFromLen(_)
KeysFromLen(n) ==
  IF n = 0 THEN <<>>
  ELSE SelectSeq(keyword_keys, LAMBDA k : Len(k) = n) \o KeysFromLen(n - 1)

\* a sort that lost reverse=True: shortest keyword first
RECURSIVE KeysUpToLen(_)
KeysUpToLen(n) ==
  IF n = 0 THEN <<>>
  ELSE KeysUpToLen(n - 1) \o SelectSeq(keyword_keys, LAMBDA k : Len(k) = n)

sorted_keywords_ascending == KeysUpToLen(MaxKeywordLen)

\* sorted(emergency_keywords.keys(), key=len, reverse=True)
sorted_keywords == KeysFromLen(MaxKeywordLen)

\* the string returned when no keyword matches
UNRECOGNIZED == "No se pudo identificar la emergencia específica. Por favor, describa con más detalle o diga 'ayuda' para obtener un listado de emergencias."

\* the classifier of app_old.py, which answers a default emergency when no
\* keyword matches
identify_emergency_default(text) ==
  LET text_lower == Lower(text)
      hits == {i \in DOMAIN sorted_keywords : Contains(text_lower, sorted_keywords[i])}
  IN  IF hits = {} THEN "Cortes y Raspaduras Menores"
      ELSE KeywordName(sorted_keywords[CHOOSE i \in hits : \A j \in hits : i <= j])

identify_emergency(text) ==
  LET text_lower == Lower(text)
      hits == {i \in DOMAIN sorted_keywords : Contains(text_lower, sorted_keywords[i])}
  IN  IF hits = {} THEN UNRECOGNIZED
      ELSE KeywordName(sorted_keywords[CHOOSE i \in hits : \A j \in hits : i <= j])

\* identify_emergency(message.text) of every message, computed once
emergency_identified_of == [text \in Texts |-> identify_emergency(text)]

-----------------------------------------------------------------------------
(* The decision graph held by Neo4j, read by the three Cypher queries of     *)
(* get_next_interaction.  It is data outside the program; this instance has  *)
(* every shape the queries distinguish: an emergency with two evaluations,   *)
(* an emergency with none, emergencies absent from the graph, a question     *)
(* with several SI steps, questions lacking the SI or the NO step, a step    *)
(* chain that ends, and a SIGUE step whose accion is empty.                  *)

\* (e:Emergencia {nombre})-[:TIENE_EVALUACION]->(ev): pairs <<nombre, ID(ev)>>
TIENE_EVALUACION ==
  { <<"Cortes y Raspaduras Menores", 1>>,
    <<"Cortes y Raspaduras Menores", 2>>,
    <<"RCP en Bebés (< 1 año)", 3>> }

\* ev.pregunta by ID(ev)
Evaluacion ==
  (1 :> "¿La herida sangra mucho?") @@
  (2 :> "¿La herida está sucia?") @@
  (3 :> "¿El bebé responde?")

\* paso.accion and paso.orden by ID(paso)
Paso ==
  (10 :> [accion |-> "Cubra la herida con una gasa", orden |-> 2]) @@
  (11 :> [accion |-> "Presione la herida", orden |-> 1]) @@
  (12 :> [accion |-> "Inicie compresiones", orden |-> 1]) @@
  (13 :> [accion |-> "Eleve la zona afectada", orden |-> 2]) @@
  (14 :> [accion |-> "", orden |-> 2])

\* (ev)-[:SI]->(paso): pairs <<ID(ev), ID(paso)>>
SI == { <<1, 10>>, <<1, 11>> }

\* (ev)-[:NO]->(paso)
NO == { <<3, 12>> }

\* (paso)-[:SIGUE]->(paso)
SIGUE == { <<11, 13>>, <<12, 14>> }

\* ORDER BY ID(ev) LIMIT 1
MinId(ids) == CHOOSE i \in ids : \A j \in ids : i <= j

\* ORDER BY paso.orden LIMIT 1 (the graph has no two candidates of equal orden)
MinOrden(ids) == CHOOSE i \in ids : \A j \in ids : Paso[i].orden <= Paso[j].orden

-----------------------------------------------------------------------------
(* get_next_interaction (app.py:74-168).  A result is the returned dict; the *)
(* dicts of the "end", "clarify" and "error" returns have no "node_id" key.  *)

NodeResult(type, content, node_id) ==
  [type |-> type, content |-> content, node_id |-> node_id, is_end |-> FALSE]

PlainResult(type, content, is_end) ==
  [type |-> type, content |-> content, is_end |-> is_end]

\* Escenario 1 (app.py:88-105)
EntryQuery(emergency_name) ==
  LET evs == {p[2] : p \in {x \in TIENE_EVALUACION : x[1] = emergency_name}}
  IN  IF evs # {}
      THEN NodeResult("question", Evaluacion[MinId(evs)], MinId(evs))
      ELSE PlainResult("end", "No se encontraron evaluaciones para esta emergencia. Por favor, busque ayuda médica.", TRUE)

\* the negative tokens tested before the affirmative ones
RelTypeNoFirst(user_input_text) ==
  LET response_lower == Strip(Lower(user_input_text))
  IN  IF \/ Contains(response_lower, <<"n","o">>)
         \/ Contains(response_lower, <<"n","o","t">>)
      THEN "NO"
      ELSE IF \/ Contains(response_lower, <<"s","i">>)
              \/ Contains(response_lower, <<"s","í">>)
              \/ Contains(response_lower, <<"y","e","s">>)
           THEN "SI"
           ELSE None

\* the rel_type chosen from the answer (app.py:110-116)
RelType(user_input_text) ==
  LET response_lower == Strip(Lower(user_input_text))
  IN  IF \/ Contains(response_lower, <<"s","i">>)
         \/ Contains(response_lower, <<"s","í">>)
         \/ Contains(response_lower, <<"y","e","s">>)
      THEN "SI"
      ELSE IF \/ Contains(response_lower, <<"n","o">>)
              \/ Contains(response_lower, <<"n","o","t">>)
           THEN "NO"
           ELSE None

\* answers handed to get_next_interaction besides the messages of Texts
AnswerTexts ==
  { <<"Y","E","S">>,
    <<" ","N","o","t"," ","y","e","t"," ">>,
    <<"c","a","s","i"," ","n","o">>,
    <<"n"," ","o">> }

\* rel_type for every message, computed once
rel_type_of == [text \in Texts \cup AnswerTexts |-> RelType(text)]

\* Escenario 2 (app.py:108-141)
AnswerQuery(last_node_id, user_input_text) ==
  LET rel_type == rel_type_of[user_input_text]
      rel == IF rel_type = "SI" THEN SI ELSE NO
      pasos == IF last_node_id \in DOMAIN Evaluacion
               THEN {p[2] : p \in {x \in rel : x[1] = last_node_id}}
               ELSE {}
  IN  IF rel_type # None
      THEN IF pasos # {}
           THEN NodeResult("step", Paso[MinOrden(pasos)].accion, MinOrden(pasos))
           ELSE PlainResult("end", "No se encontró el paso siguiente para su respuesta. Por favor, busque ayuda médica.", TRUE)
      ELSE PlainResult("clarify", "Por favor, responda 'sí' o 'no' para continuar.", FALSE)

\* Escenario 3 (app.py:144-165)
ContinuationQuery(last_node_id) ==
  LET nexts == IF last_node_id \in DOMAIN Paso
               THEN {p[2] : p \in {x \in SIGUE : x[1] = last_node_id}}
               ELSE {}
  IN  IF nexts # {} /\ Paso[MinOrden(nexts)].accion # ""
      THEN NodeResult("step", Paso[MinOrden(nexts)].accion, MinOrden(nexts))
      ELSE PlainResult("end", "Hemos llegado al final de los pasos para esta rama. Por favor, busque ayuda médica si es necesario.", TRUE)

\* Escenario 3 entered whether or not an answer is awaited
get_next_interaction_any_step(emergency_name, user_input_text, last_node_id, last_node_type, is_waiting_for_answer) ==
  IF last_node_id = NoneId /\ ~is_waiting_for_answer
  THEN EntryQuery(emergency_name)
  ELSE IF is_waiting_for_answer /\ last_node_type = "question"
  THEN AnswerQuery(last_node_id, user_input_text)
  ELSE IF last_node_type = "step"
  THEN ContinuationQuery(last_node_id)
  ELSE PlainResult("error", "Ocurrió un error inesperado en el flujo de la conversación.", TRUE)

get_next_interaction(emergency_name, user_input_text, last_node_id, last_node_type, is_waiting_for_answer) ==
  IF last_node_id = NoneId /\ ~is_waiting_for_answer
  THEN EntryQuery(emergency_name)
  ELSE IF is_waiting_for_answer /\ last_node_type = "question"
  THEN AnswerQuery(last_node_id, user_input_text)
  ELSE IF last_node_type = "step" /\ ~is_waiting_for_answer
  THEN ContinuationQuery(last_node_id)
  ELSE PlainResult("error", "Ocurrió un error inesperado en el flujo de la conversación.", TRUE)

-----------------------------------------------------------------------------
(* Session state, timer tasks *)

SessionIds == {"s1"}

\* asyncio.sleep(60) in reset_if_no_response
TimeoutDelay == 60

\* timedelta(seconds=55) in reset_if_no_response
GraceWindow == 55

\* the amounts by which time advances between two handler runs
TickSteps == {4, 56}

\* the dict written at app.py:401-407 and app.py:302-308; since_interaction
\* is now - last_interaction_time
InitialState ==
  [emergency |-> None, last_node_id |-> NoneId, last_node_type |-> None,
   waiting_for_answer |-> FALSE, since_interaction |-> 0]

\* the four conversation fields of a state dict
Fields(state) ==
  [emergency |-> state.emergency, last_node_id |-> state.last_node_id,
   last_node_type |-> state.last_node_type,
   waiting_for_answer |-> state.waiting_for_answer]

\* asyncio.create_task(reset_if_no_response(session_id)); registered: the task
\* is the one timeout_tasks[session_id] refers to; superseded (observation
\* only): a message of the session was handled after the task was created
NewTask(session_id) ==
  [sid |-> session_id, age |-> 0, registered |-> TRUE, superseded |-> FALSE]

-----------------------------------------------------------------------------
(* chat (app.py:398-510) *)

ResetCommands ==
  { <<"i","n","i","c","i","a","r">>, <<"e","m","p","e","z","a","r">>,
    <<"r","e","s","e","t">>, <<"r","e","i","n","i","c","i","a","r">>,
    <<"c","o","m","e","n","z","a","r">> }

SIGUIENTE_PASO == <<"s","i","g","u","i","e","n","t","e"," ","p","a","s","o">>

WELCOME == "Hola, soy tu guía de primeros auxilios. Por favor, describe brevemente la emergencia para comenzar (ej: 'Me corté un dedo', 'Alguien se atraganta')."

\* the assignments with a wrong test for waiting_for_answer: a step too
\* makes the session wait
ApplyInteractionWaitingOnStep(state, next_interaction) ==
  IF "node_id" \in DOMAIN next_interaction
  THEN [state |-> [state EXCEPT !.last_node_id = next_interaction.node_id,
                                !.last_node_type = next_interaction.type,
                                !.waiting_for_answer =
                                   (next_interaction.type \in {"question", "step"})],
        raised |-> None,
        is_flow_end |-> next_interaction.is_end]
  ELSE [state |-> state, raised |-> "KeyError", is_flow_end |-> FALSE]

\* the three assignments that follow every get_next_interaction call
\* (app.py:444-447, 471-474, 488-491): next_interaction["node_id"] raises
\* KeyError when the dict has no such key, before any field is written
ApplyInteraction(state, next_interaction) ==
  IF "node_id" \in DOMAIN next_interaction
  THEN [state |-> [state EXCEPT !.last_node_id = next_interaction.node_id,
                                !.last_node_type = next_interaction.type,
                                !.waiting_for_answer = (next_interaction.type = "question")],
        raised |-> None,
        is_flow_end |-> next_interaction.is_end]
  ELSE [state |-> state, raised |-> "KeyError", is_flow_end |-> FALSE]

\* what the body of chat computes between the cancellation of the timer and
\* the phrasing call (app.py:418-496)
Outcome(branch, state, classified, resolver, raw, type, raised, is_flow_end) ==
  [branch |-> branch, state |-> state, classified |-> classified,
   resolver_type |-> resolver, raw_response_content |-> raw,
   response_type |-> type, raised |-> raised, is_flow_end |-> is_flow_end]

\* a reset that forgets state["waiting_for_answer"] = False
ResetBranchKeepsWaiting(state) ==
  Outcome("reset",
          [state EXCEPT !.emergency = None, !.last_node_id = NoneId,
                        !.last_node_type = None],
          None, None, WELCOME, "initial_message", None, FALSE)

\* a reset that clears the emergency but keeps the position in the flow
ResetBranchKeepsNode(state) ==
  Outcome("reset",
          [state EXCEPT !.emergency = None, !.waiting_for_answer = FALSE],
          None, None, WELCOME, "initial_message", None, FALSE)

\* app.py:425-432
ResetBranch(state) ==
  Outcome("reset",
          [state EXCEPT !.emergency = None, !.last_node_id = NoneId,
                        !.last_node_type = None, !.waiting_for_answer = FALSE],
          None, None, WELCOME, "initial_message", None, FALSE)

\* app.py:433-447
NextStepBranch(state) ==
  LET next_interaction ==
        get_next_interaction(state.emergency, NoneText, state.last_node_id,
                             state.last_node_type, FALSE)
      a == ApplyInteraction(state, next_interaction)
  IN  Outcome("siguiente paso", a.state, None, next_interaction.type,
              next_interaction.content, next_interaction.type, a.raised, a.is_flow_end)

\* app.py:448-474
ClassifyBranch(state, text) ==
  LET emergency_identified == emergency_identified_of[text]
      cleared == [state EXCEPT !.emergency = None, !.last_node_type = None,
                               !.last_node_id = NoneId, !.waiting_for_answer = FALSE]
      started == [cleared EXCEPT !.emergency = emergency_identified]
      next_interaction ==
        get_next_interaction(started.emergency, NoneText, NoneId, None, FALSE)
      a == ApplyInteraction(started, next_interaction)
  IN  IF emergency_identified = UNRECOGNIZED
      THEN Outcome("classify", cleared, emergency_identified, None,
                   emergency_identified, "clarify", None, FALSE)
      ELSE Outcome("classify", a.state, emergency_identified, next_interaction.type,
                   next_interaction.content, next_interaction.type, a.raised, a.is_flow_end)

\* app.py:475-496
ContinueBranch(state, text) ==
  LET next_interaction ==
        get_next_interaction(state.emergency, text, state.last_node_id,
                             state.last_node_type, state.waiting_for_answer)
      a == ApplyInteraction(state, next_interaction)
      ended == [a.state EXCEPT !.emergency = None, !.last_node_type = "end"]
  IN  Outcome("continue", IF a.is_flow_end THEN ended ELSE a.state, None,
              next_interaction.type, next_interaction.content,
              next_interaction.type, a.raised, a.is_flow_end)

\* message.text.lower().strip() of every message, computed once
user_text_lower_of == [text \in Texts |-> Strip(Lower(text))]

\* the if/elif chain of app.py:422-496
Dispatch(state, text) ==
  LET user_text_lower == user_text_lower_of[text]
  IN  IF user_text_lower \in ResetCommands
      THEN ResetBranch(state)
      ELSE IF /\ user_text_lower = SIGUIENTE_PASO
              /\ state.last_node_type = "step"
              /\ ~state.waiting_for_answer
      THEN NextStepBranch(state)
      ELSE IF state.emergency = None \/ state.last_node_type = "end"
      THEN ClassifyBranch(state, text)
      ELSE ContinueBranch(state, text)

\* an except clause that always answers with the ambulance message
generate_llm_response_ambulance(raw_content, is_emergency_end, llm_ok) ==
  IF llm_ok THEN [text |-> "phrased", original |-> ""]
  ELSE [text |-> "fallback_ambulance_160", original |-> ""]

\* _generate_llm_response (app.py:317-388): the text returned, by its kind,
\* and the raw content it quotes; llm_ok is whether the Gemini call succeeds
generate_llm_response(raw_content, is_emergency_end, llm_ok) ==
  IF llm_ok THEN [text |-> "phrased", original |-> ""]
  ELSE IF is_emergency_end
       THEN [text |-> "fallback_ambulance_160", original |-> ""]
       ELSE [text |-> "fallback_original_message", original |-> raw_content]

\* app.py:400-408: the state dict of a session, created on its first message
StateOf(session_id) ==
  IF session_id \in DOMAIN session_states
  THEN session_states[session_id]
  ELSE InitialState

\* the pending task that timeout_tasks[session_id] refers to, if any
RegisteredTasks(session_id) ==
  {t \in tasks : t.sid = session_id /\ t.registered}

\* del timeout_tasks[session_id] without the cancel(): the task stays pending
TasksAfterDelOnly(session_id, pending) ==
  IF session_id \in timeout_tasks
  THEN {IF t.sid = session_id THEN [t EXCEPT !.registered = FALSE] ELSE t : t \in pending}
  ELSE pending

\* a cancel() that reaches the tasks of every session
TasksAfterCancelAll(session_id, pending) ==
  IF session_id \in timeout_tasks THEN {} ELSE pending

\* neither cancel() nor del: the earlier task keeps running
TasksAfterCancelNothing(session_id, pending) == pending

\* app.py:414-416: timeout_tasks[session_id].cancel(), then del.  A cancelled
\* task gets CancelledError at its sleep and never reaches app.py:297
TasksAfterCancel(session_id, pending) ==
  IF session_id \in timeout_tasks
  THEN {t \in pending : ~(t.sid = session_id /\ t.registered)}
  ELSE pending

\* observation: the pending tasks of the session have now seen a later message
MarkSuperseded(session_id) ==
  {IF t.sid = session_id THEN [t EXCEPT !.superseded = TRUE] ELSE t : t \in tasks}

\* the observation record of a state in which no handler has run yet
NoLast ==
  [kind |-> None, sid |-> None, text |-> <<>>, pre |-> Fields(InitialState),
   branch |-> None, classified |-> None, resolver_type |-> None,
   raw_response_content |-> "", response_type |-> "", raised |-> None,
   llm_called |-> FALSE, is_emergency_end |-> FALSE, response |-> None,
   response_original |-> "", llm_failed |-> FALSE,
   timer_scheduled |-> FALSE, cancelled_age |-> -1,
   did_reset |-> FALSE, superseded |-> FALSE]

Init ==
  /\ session_states = <<>>
  /\ timeout_tasks = {}
  /\ tasks = {}
  /\ conversation_memories = {}
  /\ last = NoLast

\* POST /chat with {text, session_id}: one run of chat to its return or to
\* the exception that ends it
Chat(session_id, text, llm_ok) ==
  \E o \in {Dispatch([StateOf(session_id) EXCEPT !.since_interaction = 0], text)} :
  \E final_response \in {generate_llm_response(o.raw_response_content,
                                               o.is_flow_end, llm_ok)} :
  LET cancelled == RegisteredTasks(session_id)
      pending == TasksAfterCancel(session_id, MarkSuperseded(session_id))
      returns == o.raised = None
      arm == returns /\ o.state.waiting_for_answer
  IN  /\ session_states' =
           [s \in DOMAIN session_states \cup {session_id} |->
              IF s = session_id THEN o.state ELSE session_states[s]]
      /\ tasks' = IF arm THEN pending \cup {NewTask(session_id)} ELSE pending
      /\ timeout_tasks' = IF arm THEN timeout_tasks \cup {session_id}
                          ELSE timeout_tasks \ {session_id}
      /\ conversation_memories' =
           IF returns \/ session_id \notin DOMAIN session_states
           THEN conversation_memories \cup {session_id}
           ELSE conversation_memories
      /\ last' =
           [NoLast EXCEPT
              !.kind = "chat", !.sid = session_id, !.text = text,
              !.pre = Fields(StateOf(session_id)),
              !.branch = o.branch, !.classified = o.classified,
              !.resolver_type = o.resolver_type,
              !.raw_response_content = o.raw_response_content,
              !.response_type = o.response_type, !.raised = o.raised,
              !.llm_called = returns,
              !.is_emergency_end = returns /\ o.is_flow_end,
              !.response = IF returns THEN final_response.text ELSE None,
              !.response_original =
                 IF returns THEN final_response.original ELSE "",
              !.llm_failed = returns /\ ~llm_ok,
              !.timer_scheduled = arm,
              !.cancelled_age = IF session_id \in timeout_tasks /\ cancelled # {}
                                THEN (CHOOSE t \in cancelled : TRUE).age
                                ELSE -1]

\* reset_if_no_response after its sleep (app.py:297-314)
TimerFire(task) ==
  LET session_id == task.sid
      stale == /\ session_id \in DOMAIN session_states
               /\ session_states[session_id].since_interaction >= GraceWindow
  IN  /\ task \in tasks
      /\ task.age >= TimeoutDelay
      /\ tasks' = tasks \ {task}
      /\ session_states' =
           IF stale THEN [session_states EXCEPT ![session_id] = InitialState]
           ELSE session_states
      /\ conversation_memories' =
           IF stale THEN conversation_memories \ {session_id}
           ELSE conversation_memories
      /\ last' = [NoLast EXCEPT !.kind = "timer", !.sid = session_id,
                                !.pre = Fields(session_states[session_id]),
                                !.did_reset = stale,
                                !.superseded = task.superseded]
      /\ UNCHANGED timeout_tasks

\* min(n + d, TimeoutDelay)
Aged(n, d) == IF n + d >= TimeoutDelay THEN TimeoutDelay ELSE n + d

\* d seconds pass with no handler running
Tick(d) ==
  /\ session_states' =
       [s \in DOMAIN session_states |->
          [session_states[s] EXCEPT !.since_interaction = Aged(@, d)]]
  /\ tasks' = {[t EXCEPT !.age = Aged(@, d)] : t \in tasks}
  /\ UNCHANGED <<timeout_tasks, conversation_memories, last>>

Next ==
  \/ \E session_id \in SessionIds, text \in Texts, llm_ok \in BOOLEAN :
       Chat(session_id, text, llm_ok)
  \/ \E task \in tasks : TimerFire(task)
  \/ \E d \in TickSteps : Tick(d)

Spec == Init /\ [][Next]_vars

\* time passes
TickStep == \E d \in TickSteps : Tick(d)

\* the event loop resumes a task whose sleep is over
FireStep == \E task \in tasks : TimerFire(task)

\* Spec with the scheduling the runtime guarantees: the clock advances and
\* asyncio resumes every task whose sleep has ended.  No message is ever
\* bound to arrive.
LiveSpec == Spec /\ WF_vars(TickStep) /\ WF_vars(FireStep)

-----------------------------------------------------------------------------
(* Two sessions served by the same process *)

\* message.session_id
SessionPair == {"s1", "s2"}

\* the messages of the two sessions: a start, two answers, a reset command
PairTexts ==
  { <<"t","e","n","g","o"," ","u","n"," ","c","o","r","t","e">>,
    <<"s","í">>,
    <<"t","a","l"," ","v","e","z">>,
    <<" ","R","e","s","e","t"," ">> }

\* a message of session_id is handled
ChatOf(session_id) ==
  \E text \in PairTexts, llm_ok \in BOOLEAN : Chat(session_id, text, llm_ok)

\* the timer task of session_id ends its sleep
TimerOf(session_id) ==
  \E task \in tasks : task.sid = session_id /\ TimerFire(task)

\* between two handler runs either a moment passes or a whole sleep
PairTickSteps == {GraceWindow - 1, TimeoutDelay}

NextPair ==
  \/ \E session_id \in SessionPair : ChatOf(session_id)
  \/ \E session_id \in SessionPair : TimerOf(session_id)
  \/ \E d \in PairTickSteps : Tick(d)

SpecPair == Init /\ [][NextPair]_vars

-----------------------------------------------------------------------------
(* get_next_interaction called on its own, over a grid of arguments *)

\* emergency_name: two emergencies of the graph and one with no evaluation
CallEmergencies ==
  {"Cortes y Raspaduras Menores", "RCP en Bebés (< 1 año)", "Ahogamiento"}

\* user_input_text
CallTexts ==
  AnswerTexts \cup { <<"s","í">>, <<"S","i">>, <<"n","o">>,
                     <<"t","a","l"," ","v","e","z">>,
                     <<"S","i","g","u","i","e","n","t","e"," ","p","a","s","o"," ">> }

\* last_node_id: None, evaluations, steps, and an id of no node
CallNodeIds == {NoneId, 1, 3, 11, 12, 13, 99}

\* last_node_type
CallNodeTypes == {None, "question", "step", "end"}

\* one call of get_next_interaction; last records its arguments and the
\* dict it returns
CallResolver(emergency_name, user_input_text, last_node_id, last_node_type, is_waiting_for_answer) ==
  /\ last' = [kind |-> "get_next_interaction",
              emergency_name |-> emergency_name,
              user_input_text |-> user_input_text,
              last_node_id |-> last_node_id,
              last_node_type |-> last_node_type,
              is_waiting_for_answer |-> is_waiting_for_answer,
              result |-> get_next_interaction(emergency_name, user_input_text,
                                              last_node_id, last_node_type,
                                              is_waiting_for_answer)]
  /\ UNCHANGED <<session_states, timeout_tasks, tasks, conversation_memories>>

\* the list EMERGENCIAS_VALIDAS (app.py:185-209)
EMERGENCIAS_VALIDAS ==
  { "Cuerpo Extraño en el Ojo",
    "Quemaduras de Segundo Grado",
    "Quemaduras Eléctricas",
    "Atragantamiento en Adultos y Niños Mayores",
    "Convulsiones (Post-Convulsión y Protección)",
    "Dientes Rotos o Caídos",
    "Dificultad para Respirar (Leve)",
    "Fracturas Evidentes o Sospechosas",
    "Hemorragia Severa",
    "Ahogamiento",
    "Golpe en la Cabeza",
    "Cortes y Raspaduras Menores",
    "Esguinces y Torceduras Leves",
    "Picaduras de Insectos (No Alérgicas)",
    "Golpes y Contusiones Menores",
    "Sangrado Nasal",
    "Insolación Leve / Agotamiento por Calor",
    "Hipotermia Leve",
    "Desmayo (Síncope Simple)",
    "RCP en Niños (1 a 8 años)",
    "RCP en Bebés (< 1 año)",
    "RCP en Adultos (Solo Manos)",
    "Revisión Básica de Conciencia y Respiración" }

\* the Gemini call raises
LlmRaises == "<raises>"

\* _generate_llm_response itself raises, outside its try (app.py:323-354)
HelperRaises == "<helper raises>"

\* what convo.send_message(...).text can be for the classification prompt:
\* names of the list, near misses, other text
LlmOutputs ==
  { "Hemorragia Severa", "Cortes y Raspaduras Menores",
    "hemorragia severa", "Hemorragia Severa.", " Hemorragia Severa",
    "Hemorragia", "Infarto", "me corté un dedo", "" }

\* the text argument of classify_with_gemini; one is itself a name of the list
ClassifyTexts == {"me corté un dedo", "hola", "Hemorragia Severa"}

\* the string _generate_llm_response returns when Gemini raises and
\* is_emergency_end is false (app.py:388)
FallbackOriginal ==
  "Lo siento, tuve un problema al generar la respuesta. El mensaje original era: CLASSIFICATION_PROMPT. Por favor, busque ayuda médica si es necesario."

\* a classifier that trusts the model's answer
classify_with_gemini_unchecked(text, outcome) ==
  IF outcome \in {LlmRaises, HelperRaises} THEN text ELSE outcome

\* classify_with_gemini (app.py:171-243); outcome is what the Gemini call
\* does.  The value is the string returned
classify_with_gemini(text, outcome) ==
  IF outcome = HelperRaises
  THEN text
  ELSE LET r == generate_llm_response("CLASSIFICATION_PROMPT", FALSE,
                                      outcome # LlmRaises)
           response == IF r.text = "phrased" THEN outcome
                       ELSE FallbackOriginal
       IN  IF response \in EMERGENCIAS_VALIDAS THEN response ELSE text

\* one call of classify_with_gemini with the default session_id; the
\* phrasing helper creates the memory of that session (app.py:323-326)
CallClassifier(text, outcome) ==
  /\ last' = [kind |-> "classify_with_gemini", text |-> text,
              outcome |-> outcome,
              result |-> classify_with_gemini(text, outcome)]
  /\ conversation_memories' =
       IF outcome = HelperRaises THEN conversation_memories
       ELSE conversation_memories \cup {"default"}
  /\ UNCHANGED <<session_states, timeout_tasks, tasks>>

NextCalls ==
  \/ \E emergency_name \in CallEmergencies, user_input_text \in CallTexts,
        last_node_id \in CallNodeIds, last_node_type \in CallNodeTypes,
        is_waiting_for_answer \in BOOLEAN :
       CallResolver(emergency_name, user_input_text, last_node_id,
                    last_node_type, is_waiting_for_answer)
  \/ \E text \in ClassifyTexts, outcome \in LlmOutputs \cup {LlmRaises, HelperRaises} :
       CallClassifier(text, outcome)

SpecCalls == Init /\ [][NextCalls]_vars

-----------------------------------------------------------------------------
(* Properties *)

\* the session the last handler run was about, after that run
After == session_states[last.sid]

\* the last handler run was chat, for a message that is no reset command
NonResetChat ==
  /\ last.kind = "chat"
  /\ Strip(Lower(last.text)) \notin ResetCommands

\* the keywords of the table that occur in the lowercased text
MatchingKeywords(text) ==
  {i \in DOMAIN emergency_keywords : Contains(Lower(text), emergency_keywords[i].kw)}

\* C1: in every reachable state, a session with waiting_for_answer true has
\* last_node_type 'question'.
C1_WaitingImpliesQuestion ==
  \A s \in DOMAIN session_states :
    session_states[s].waiting_for_answer => session_states[s].last_node_type = "question"

\* C1 witness: a message has just left the session waiting on a question.
C1_Witness ==
  /\ last.kind = "chat"
  /\ After.waiting_for_answer
  /\ After.last_node_type = "question"

\* C2: whenever get_next_interaction returns a terminal result ('end' or
\* 'error'), chat completes and calls _generate_llm_response with
\* is_emergency_end true.
C2_TerminalResultIsPhrasedAsEmergencyEnd ==
  (last.kind = "chat" /\ last.resolver_type \in {"end", "error"})
    => (last.llm_called /\ last.is_emergency_end)

\* C3: for every message chat runs to completion and returns a response; no
\* resolver outcome makes it end with an unhandled exception.
C3_ChatAlwaysReturns ==
  last.kind = "chat" => (last.raised = None /\ last.response # None)

\* C4: a timer task never resets the session state when a message of the
\* session was handled after the task was created.
C4_ExpiryAfterMessageNeverResets ==
  (last.kind = "timer" /\ last.did_reset) => ~last.superseded

\* C4 witness: a message was handled 56 s after the timer was created, while
\* it was pending; 4 s later, at the timer's expiry, the step that message
\* led to is still the session's position.
C4_Witness ==
  /\ last.kind = "chat"
  /\ last.cancelled_age = 56
  /\ After.since_interaction = 4
  /\ After.last_node_type = "step"
  /\ After.emergency # None

\* the messages of Texts that are reset commands once lowercased and trimmed
C5_ResetTexts ==
  { <<"i","n","i","c","i","a","r">>,
    <<"e","m","p","e","z","a","r">>,
    <<" ","R","e","s","e","t"," ">>,
    <<"R","E","I","N","I","C","I","A","R">>,
    <<"c","o","m","e","n","z","a","r">> }

\* C5: after a reset command, from any state, the session has emergency None,
\* last_node_id None, last_node_type None, waiting_for_answer False and no
\* timer armed; in particular a reset sent in that state leaves it unchanged.
C5_ResetClearsState ==
  (last.kind = "chat" /\ last.text \in C5_ResetTexts)
    => /\ Fields(After) = Fields(InitialState)
       /\ last.sid \notin timeout_tasks
       /\ \A t \in tasks : t.sid # last.sid
       /\ last.raised = None
       /\ (last.pre = Fields(InitialState) => Fields(After) = last.pre)

\* C5 witness: a reset command arrived while the session was waiting for an
\* answer with its timer pending.
C5_Witness ==
  /\ last.kind = "chat"
  /\ last.text \in C5_ResetTexts
  /\ last.pre.waiting_for_answer
  /\ last.cancelled_age >= 0

\* C6: on a fresh session "me corté un dedo" is classified as 'Cortes y
\* Raspaduras Menores', the entry query returns the first question, and the
\* session is left waiting for the answer with response type 'question'.
C6_CutFingerStartsFlow ==
  ( /\ last.kind = "chat"
    /\ last.text = <<"m","e"," ","c","o","r","t","é"," ","u","n"," ","d","e","d","o">>
    /\ last.pre = Fields(InitialState) )
    => /\ last.classified = "Cortes y Raspaduras Menores"
       /\ last.response_type = "question"
       /\ After.waiting_for_answer
       /\ After.last_node_type = "question"

\* C7: from a session waiting on a question, "sí" follows the SI edge: with a
\* step there, the session is left on that step, not waiting; with none, the
\* session is left ended (emergency None, last_node_type 'end') and the
\* phrasing call gets the escalation flag.
C7_YesFollowsSiEdge ==
  ( /\ last.kind = "chat"
    /\ last.text = <<"s","í">>
    /\ last.pre.waiting_for_answer
    /\ last.pre.last_node_type = "question" )
    => LET pasos == {p[2] : p \in {x \in SI : x[1] = last.pre.last_node_id}}
       IN  IF pasos # {}
           THEN /\ After.last_node_type = "step"
                /\ After.last_node_id = MinOrden(pasos)
                /\ ~After.waiting_for_answer
           ELSE /\ After.emergency = None
                /\ After.last_node_type = "end"
                /\ last.llm_called
                /\ last.is_emergency_end

\* C8: with no emergency selected (or the flow ended), a non-reset message
\* that contains no keyword gets the 'clarify' response with the fixed
\* marker, leaves the session cleared, calls no resolver and arms no timer.
C8_UnrecognizedTextClarifies ==
  ( /\ NonResetChat
    /\ (last.pre.emergency = None \/ last.pre.last_node_type = "end")
    /\ MatchingKeywords(last.text) = {} )
    => /\ last.response_type = "clarify"
       /\ last.raw_response_content = UNRECOGNIZED
       /\ last.llm_called
       /\ Fields(After) = Fields(InitialState)
       /\ last.resolver_type = None
       /\ ~last.timer_scheduled
       /\ \A t \in tasks : t.sid # last.sid

\* C8 witness: "hola" was sent to a session with no emergency selected.
C8_Witness ==
  /\ last.kind = "chat"
  /\ last.text = <<"h","o","l","a">>
  /\ last.pre.emergency = None
  /\ last.response_type = "clarify"

\* C9: identify_emergency answers the emergency of a longest keyword among
\* those the text contains; "emergencia rcp bebes en curso" is classified as
\* 'RCP en Bebés (< 1 año)', not as the emergency of 'rcp'.
C9_LongestKeywordWins ==
  (last.kind = "chat" /\ last.branch = "classify")
    => LET hits == MatchingKeywords(last.text)
       IN  /\ hits # {} =>
                \E i \in hits :
                  /\ \A j \in hits : Len(emergency_keywords[j].kw) <= Len(emergency_keywords[i].kw)
                  /\ last.classified = emergency_keywords[i].name
           /\ last.text = <<"e","m","e","r","g","e","n","c","i","a"," ","r","c","p"," ","b","e","b","e","s"," ","e","n"," ","c","u","r","s","o">>
                => last.classified = "RCP en Bebés (< 1 año)"

\* C9 witness: "emergencia rcp bebes en curso", which contains both 'rcp' and
\* 'rcp bebes', has been classified.
C9_Witness ==
  /\ last.kind = "chat"
  /\ last.branch = "classify"
  /\ last.text = <<"e","m","e","r","g","e","n","c","i","a"," ","r","c","p"," ","b","e","b","e","s"," ","e","n"," ","c","u","r","s","o">>
  /\ Cardinality(MatchingKeywords(last.text)) = 2

\* C10: a session waiting on a question that gets a non-reset message with
\* neither an affirmative nor a negative token answers 'clarify' to the
\* caller and keeps its state: same emergency, same node, still waiting.
C10_AmbiguousAnswerClarifies ==
  ( /\ NonResetChat
    /\ last.pre.waiting_for_answer
    /\ last.pre.last_node_type = "question"
    /\ \A token \in {<<"s","i">>, <<"s","í">>, <<"y","e","s">>, <<"n","o">>, <<"n","o","t">>} :
         ~Contains(Strip(Lower(last.text)), token) )
    => /\ last.response_type = "clarify"
       /\ last.raised = None
       /\ last.response # None
       /\ Fields(After) = last.pre

\* the pending timer tasks of a session
PendingOf(session_id) == {t \in tasks : t.sid = session_id}

\* C11: a message whose resolver result is terminal leaves the session ended:
\* emergency None and last_node_type 'end', so that the next message is
\* classified again.
C11_TerminalResultEndsSession ==
  (last.kind = "chat" /\ last.resolver_type \in {"end", "error"})
    => /\ After.emergency = None
       /\ After.last_node_type = "end"

\* C12: a message that leaves the session waiting for an answer leaves
\* exactly one pending timer task for it.
C12_WaitingHasOneTimer ==
  (last.kind = "chat" /\ After.waiting_for_answer)
    => Cardinality(PendingOf(last.sid)) = 1

\* the session is waiting for an answer and no message has arrived for the
\* whole timer delay
SilentWaiting(session_id) ==
  /\ session_id \in DOMAIN session_states
  /\ session_states[session_id].waiting_for_answer
  /\ session_states[session_id].since_interaction >= TimeoutDelay

\* the state written by reset_if_no_response, with the memory entry removed
TimedOut(session_id) ==
  /\ Fields(StateOf(session_id)) = Fields(InitialState)
  /\ session_id \notin conversation_memories

\* C13: a session that waits for an answer and gets no further message is
\* eventually reset by the timer (state cleared, memory entry removed),
\* however it came to wait; the only other way out is a new message.
C13_SilentWaitingIsReset ==
  \A session_id \in SessionIds :
    SilentWaiting(session_id)
      ~> (TimedOut(session_id)
            \/ StateOf(session_id).since_interaction < TimeoutDelay)

\* C14: in every reachable state a session has at most one pending timer
\* task; arming a timer never leaves an older one of the session pending.
C14_AtMostOneTimer ==
  \A session_id \in SessionIds : Cardinality(PendingOf(session_id)) <= 1

\* C14 witness: a message has just armed a timer, and it is the only one.
C14_Witness ==
  /\ last.kind = "chat"
  /\ last.timer_scheduled
  /\ last.sid \in timeout_tasks
  /\ PendingOf(last.sid) = {NewTask(last.sid)}

\* C15: every message cancels the session's pending timer: no pending task
\* predates the latest message of its session, a session that is not waiting
\* has no pending task, and a timer only ever fires on a waiting session.
C15_MessageCancelsTimer ==
  /\ \A t \in tasks : ~t.superseded
  /\ \A session_id \in DOMAIN session_states :
       ~session_states[session_id].waiting_for_answer => PendingOf(session_id) = {}
  /\ last.kind = "timer" => last.pre.waiting_for_answer

\* C15 witness: a message arrived while the timer was pending and left the
\* session not waiting, with no timer.
C15_Witness ==
  /\ last.kind = "chat"
  /\ last.cancelled_age >= 0
  /\ ~After.waiting_for_answer
  /\ PendingOf(last.sid) = {}

\* the raw contents chat hands to _generate_llm_response
RawContents ==
  {WELCOME, UNRECOGNIZED}
    \cup {Evaluacion[e] : e \in DOMAIN Evaluacion}
    \cup {Paso[p].accion : p \in DOMAIN Paso}

\* C17: a failing Gemini call is not propagated: _generate_llm_response
\* returns the ambulance-160 message when is_emergency_end is set and else
\* the message quoting the raw content; chat returns it, and the session state
\* and the timer are what the message alone determines.
C17_LlmFailureFallsBack ==
  /\ \A raw \in RawContents :
       /\ generate_llm_response(raw, TRUE, FALSE).text = "fallback_ambulance_160"
       /\ generate_llm_response(raw, FALSE, FALSE)
            = [text |-> "fallback_original_message", original |-> raw]
  /\ (last.kind = "chat" /\ last.llm_failed)
       => /\ last.raised = None
          /\ last.response = IF last.is_emergency_end
                             THEN "fallback_ambulance_160"
                             ELSE "fallback_original_message"
          /\ ~last.is_emergency_end
               => last.response_original = last.raw_response_content
          /\ Fields(After)
               = Fields(Dispatch(last.pre @@ [since_interaction |-> 0],
                                 last.text).state)
          /\ last.timer_scheduled = After.waiting_for_answer
          /\ last.sid \in conversation_memories

\* C17 witness: the Gemini call failed while a question was being phrased.
C17_Witness ==
  /\ last.kind = "chat"
  /\ last.llm_failed
  /\ last.response_type = "question"
  /\ last.response = "fallback_original_message"
  /\ last.response_original = Evaluacion[After.last_node_id]

\* the last step was a call of get_next_interaction
Called == last.kind = "get_next_interaction"

\* the call was an entry, an answer, a continuation query
IsEntryQuery == last.last_node_id = NoneId /\ ~last.is_waiting_for_answer
IsAnswerQuery == last.is_waiting_for_answer /\ last.last_node_type = "question"
IsContinuationQuery == last.last_node_type = "step" /\ ~last.is_waiting_for_answer

\* the answer, lowercased and trimmed, contains an affirmative token
SaysYes ==
  LET answer == Strip(Lower(last.user_input_text))
  IN  \E token \in {<<"s","i">>, <<"s","í">>, <<"y","e","s">>} :
        Contains(answer, token)

\* the answer, lowercased and trimmed, contains a negative token
SaysNo ==
  LET answer == Strip(Lower(last.user_input_text))
  IN  \E token \in {<<"n","o">>, <<"n","o","t">>} : Contains(answer, token)

\* the result is the step at the end of an edge of rel out of the last node,
\* or 'end' when the node has no such edge
Follows(rel) ==
  IF \E edge \in rel : edge[1] = last.last_node_id
  THEN /\ last.result.type = "step"
       /\ <<last.last_node_id, last.result.node_id>> \in rel
       /\ last.result.content = Paso[last.result.node_id].accion
       /\ ~last.result.is_end
  ELSE last.result.type = "end" /\ last.result.is_end

\* C18: in an answer query a text with an affirmative token follows the SI
\* edge, a text with none but a negative token follows the NO edge, and any
\* other text gets type 'clarify' with is_end false.
C18_AnswerClassification ==
  (Called /\ ~IsEntryQuery /\ IsAnswerQuery)
    => /\ SaysYes => Follows(SI)
       /\ (~SaysYes /\ SaysNo) => Follows(NO)
       /\ (~SaysYes /\ ~SaysNo)
            => (last.result.type = "clarify" /\ ~last.result.is_end)

\* C18 witness: an answer with both an affirmative and a negative token, to
\* a question that has a SI edge.
C18_Witness ==
  /\ Called /\ IsAnswerQuery
  /\ SaysYes /\ SaysNo
  /\ last.last_node_id = 1
  /\ last.result.type = "step"
  /\ last.result.node_id = 11

\* C19: the result has type 'error' exactly when the call is neither an entry
\* nor an answer nor a continuation query, an error has is_end true, and every
\* combination of arguments gets a result of one of the five types.
C19_ErrorExactlyOnOtherCombinations ==
  Called
    => /\ last.result.type \in {"question", "step", "end", "clarify", "error"}
       /\ last.result.type = "error"
            <=> ~(IsEntryQuery \/ IsAnswerQuery \/ IsContinuationQuery)
       /\ last.result.type = "error" => last.result.is_end

\* C19 witness: a step is the last node while an answer is awaited.
C19_Witness ==
  /\ Called
  /\ last.last_node_type = "step"
  /\ last.is_waiting_for_answer
  /\ last.last_node_id = 11
  /\ last.result.type = "error"

\* the last handler run was a message that is no reset command, received by
\* a session in a step flow: last_node_type 'step', not waiting
StepFlowChat ==
  /\ NonResetChat
  /\ last.pre.last_node_type = "step"
  /\ ~last.pre.waiting_for_answer

\* the session of the last handler run has ended its flow
Ended == After.emergency = None /\ After.last_node_type = "end"

\* C21: a non-reset message to a session in a step flow runs the
\* continuation query and leaves the session either on the next step by the
\* SIGUE edge, not waiting, or ended; it never leaves it waiting for an answer.
C21_StepFlowLeadsToStepOrEnd ==
  StepFlowChat
    => /\ last.resolver_type \in {"step", "end"}
       /\ ~After.waiting_for_answer
       /\ \/ /\ After.last_node_type = "step"
             /\ <<last.pre.last_node_id, After.last_node_id>> \in SIGUE
          \/ Ended

\* the part of C21 about waiting_for_answer alone
C21_StepFlowNeverWaits ==
  StepFlowChat
    => /\ last.resolver_type \in {"step", "end"}
       /\ ~After.waiting_for_answer
       /\ After.last_node_type = "step"

\* C22: a non-reset message to a session on the last step of its chain (no
\* SIGUE edge, or a next step with empty content) gets the 'end' result and
\* leaves the session ended.
C22_LastStepEndsFlow ==
  (/\ StepFlowChat
   /\ \A edge \in SIGUE :
        edge[1] = last.pre.last_node_id => Paso[edge[2]].accion = "")
    => /\ last.resolver_type = "end"
       /\ last.raised = None
       /\ Ended

\* the last step was a call of classify_with_gemini
Classified == last.kind = "classify_with_gemini"

\* C23: whatever the Gemini call does, classify_with_gemini returns a name of
\* EMERGENCIAS_VALIDAS or the input text unchanged, and it returns the
\* model's answer only when that answer is a name of the list.
C23_ClassifierReturnsNameOrText ==
  Classified
    => /\ last.result \in EMERGENCIAS_VALIDAS \/ last.result = last.text
       /\ last.outcome \notin EMERGENCIAS_VALIDAS => last.result = last.text
       /\ last.outcome \in EMERGENCIAS_VALIDAS => last.result = last.outcome

\* C23 witness: the model answers with a near miss of a name, and the input
\* text comes back.
C23_Witness ==
  /\ Classified
  /\ last.outcome = "hemorragia severa"
  /\ last.text = "me corté un dedo"
  /\ last.result = "me corté un dedo"

\* C25: in every session state, last_node_type 'question' or 'step' comes
\* with an emergency and a node id, and a session with no emergency has
\* last_node_type None or 'end'.
C25_PositionImpliesEmergency ==
  \A session_id \in DOMAIN session_states :
    LET state == session_states[session_id]
    IN  /\ state.last_node_type \in {"question", "step"}
             => (state.emergency # None /\ state.last_node_id # NoneId)
        /\ state.emergency = None => state.last_node_type \in {None, "end"}

\* C25 witness: a session on a step of a flow has just been reset by command
\* and has neither emergency nor position.
C25_Witness ==
  /\ last.kind = "chat"
  /\ last.branch = "reset"
  /\ last.pre.last_node_type = "step"
  /\ last.pre.emergency # None
  /\ After.emergency = None
  /\ After.last_node_type = None

\* what the process holds for a session: its state dict, its pending timer
\* tasks and their registration, its conversation memory
Held(session_id) ==
  [state |-> IF session_id \in DOMAIN session_states
             THEN <<session_states[session_id]>> ELSE <<>>,
   pending |-> PendingOf(session_id),
   registered |-> session_id \in timeout_tasks,
   memory |-> session_id \in conversation_memories]

\* C24: a step that handles a message of one session, or fires its timer,
\* leaves the state, the pending timer and the memory of every other session
\* as they were.
C24_SessionsAreIsolated ==
  [][\A a, b \in SessionPair :
       (a # b /\ (ChatOf(a) \/ TimerOf(a))) => Held(b)' = Held(b)]_vars

\* C24 witness: a message of s1 has been handled while s2 was waiting with a
\* pending timer and a memory, and s2 still has them.
C24_Witness ==
  /\ last.kind = "chat"
  /\ last.sid = "s1"
  /\ last.cancelled_age >= 0
  /\ "s2" \in DOMAIN session_states
  /\ session_states["s2"].waiting_for_answer
  /\ PendingOf("s2") # {}
  /\ "s2" \in timeout_tasks
  /\ "s2" \in conversation_memories
====
